---- MODULE Spec2Model ----
(***************************************************************************)
(* PNGTuber (js/app.js): the audio-reactive avatar with the OBS WebSocket  *)
(* source and the microphone fallback.                                     *)
(*                                                                         *)
(* One action per callback of the page: the constructor, the WebSocket     *)
(* open / message / error / close listeners, the 3000 ms timeout, the      *)
(* 16 ms poll timer, the enable-mic click, the getUserMedia promise        *)
(* settling, the animation frame and the threshold slider.                 *)
(*                                                                         *)
(* The host is the browser's WebSocket as the WHATWG standard defines it:  *)
(*   - message events are delivered only while readyState is OPEN;         *)
(*   - a failed connection sets readyState CLOSED and fires error and      *)
(*     then close in one task (nothing runs between the two listeners);    *)
(*   - close() on a CONNECTING socket fails the connection (CLOSING, then  *)
(*     error and close); close() on a CLOSED socket does nothing.          *)
(*                                                                         *)
(* smoothedVolume is kept as an exact decimal n / 10^e; the doubles of the *)
(* source differ from it by rounding error of the order of 1e-14.          *)
(***************************************************************************)
EXTENDS Integers, Naturals, Sequences, FiniteSets, TLC

\* ---------------------------------------------------------------- bounds
\* enable-mic clicks in a session
MaxClicks == 1
\* processVolume calls in a session of Spec, hence the decimal digits of
\* smoothedVolume
MaxDigits == 2
\* messages sent in a session
MaxSent == 3
\* processVolume calls in a session of TalkSpec
MaxSamples == 6

\* ---------------------------------------------------- program constants
DefaultThreshold == 20
RpcVersion == 1
OpHello == 0
OpIdentify == 1
OpIdentified == 2
OpRequest == 6
OpResponse == 7

Undefined == "undefined"
DefaultSource == "Mic/Aux"

\* Values the inputs are drawn from.
\* window.location.search as URLSearchParams: obs=true or not, whether
\* ws://127.0.0.1:${port} is a URL new WebSocket accepts, password ("" when
\* absent), source and threshold (hasX when present)
Params(obs, portOk, password, hasSource, source, hasThreshold, th) ==
    [obs |-> obs, portOk |-> portOk, password |-> password, hasSource |-> hasSource,
     source |-> source, hasThreshold |-> hasThreshold, threshold |-> th]
URLs ==
    { Params(FALSE, TRUE, "", FALSE, "", FALSE, 0),
      Params(FALSE, TRUE, "", FALSE, "", TRUE, 30),
      Params(TRUE, TRUE, "", FALSE, "", FALSE, 0),
      Params(TRUE, TRUE, "secret", TRUE, "Desktop Audio", TRUE, 30),
      Params(TRUE, FALSE, "", FALSE, "", FALSE, 0) }
\* Math.round(average / 255 * 100) of the frame loop
LocalVolumes == {0, 100}
\* inputVolumeMul in tenths: -0.5, 0.5, 1.5
Muls == {-5, 5, 15}
\* an opcode handleOBSMessage does not interpret
OtherOps == {5}
\* inputVolumeMul in tenths of the talk machine's runs: 0.1, 0.9
TalkMuls == {1, 9}
\* values of the threshold slider
SliderValues == {20, 30}

VARIABLES
    started,          \* the constructor has run
    params,           \* the page's URL parameters
    obsPassword,      \* this.obsPassword
    obsAudioSource,   \* this.obsAudioSource
    obsWebSocket,     \* "null" or the readyState of this.obsWebSocket
    obsConnected,     \* this.obsConnected
    closePending,     \* the error listener ran, the close listener runs next
    deadline,         \* the setTimeout(..., 3000): "unarmed", "armed", "fired"
    pollTimers,       \* pending setTimeout(pollAudio, 16)
    micPending,       \* getUserMedia promises not settled yet
    audioLoops,       \* running processAudio frame loops
    micPromptHidden,  \* micPrompt has class hidden
    promptText,       \* text of the mic prompt paragraph
    threshold,        \* this.threshold
    smoothedVolume,   \* this.smoothedVolume, [n, e] standing for n / 10^e
    isTalking,        \* this.isTalking
    mouthOpen,        \* avatarContainer has class talking
    sent,             \* messages handed to WebSocket.send, oldest first
    clicks,           \* enable-mic clicks so far
    wsCreated,        \* new WebSocket(...) calls so far
    fallbacks,        \* initAudio calls made by initOBSWebSocket so far, by caller
    gotIdentified,    \* an op=2 message has been handled
    hellos,           \* op=0 messages handled so far
    polls,            \* setTimeout(pollAudio, 16) callbacks run so far
    lastSource,       \* who called processVolume last: "none", "local", "remote"
    lastMsg,          \* the message the last callback handled, NoMsg if it handled none
    fed,              \* the processVolume calls so far, oldest first: the sample, the
                      \* threshold it was compared with, isTalking after the call and
                      \* whether updateMouthState was called
    twin              \* the mic-only variant fed the same samples: its
                      \* smoothedVolume, isTalking, talking class and, per sample,
                      \* whether updateMouthState was called

vars == <<started, params, obsPassword, obsAudioSource, obsWebSocket, obsConnected,
          closePending, deadline, pollTimers, micPending, audioLoops,
          micPromptHidden, promptText, threshold, smoothedVolume, isTalking,
          mouthOpen, sent, clicks, wsCreated, fallbacks, gotIdentified,
          hellos, polls, lastSource, lastMsg, fed, twin>>

cfgVars == <<params, obsPassword, obsAudioSource>>
wsVars == <<obsWebSocket, obsConnected, closePending>>
talkVars == <<smoothedVolume, isTalking, mouthOpen>>
ghostVars == <<gotIdentified, hellos, polls>>

\* ------------------------------------------------------------- messages
Msg(op, rpc, auth, rtype, input) ==
    [op |-> op, rpcVersion |-> rpc, authentication |-> auth,
     requestType |-> rtype, inputName |-> input]

\* obsAuthenticate's message
AuthIdentify(password) == Msg(OpIdentify, RpcVersion, password, Undefined, Undefined)

\* the identify handleOBSMessage answers a hello with
HelloIdentify(password) == Msg(OpIdentify, RpcVersion, Undefined, Undefined, Undefined)

\* pollAudio's request
VolumeRequest(source) == Msg(OpRequest, 0, Undefined, "GetInputVolume", source)

\* incoming op=7 messages: [d.requestType, whether d.responseData has an
\* inputVolumeMul, its value in tenths]
Response(rtype, hasMul, mul) == [requestType |-> rtype, hasMul |-> hasMul, mul |-> mul]
ResponsesWith(muls) ==
    {Response("GetInputVolume", TRUE, m) : m \in muls}
    \cup {Response("GetVersion", TRUE, 5), Response("GetInputVolume", FALSE, 0)}
Responses == ResponsesWith(Muls)

\* an incoming message as handleOBSMessage reads it: [op, d.requestType,
\* whether d.responseData has an inputVolumeMul, its value in tenths]
InMsg(op, rtype, hasMul, mul) ==
    [op |-> op, requestType |-> rtype, hasMul |-> hasMul, mul |-> mul]
NoMsg == InMsg(-1, Undefined, FALSE, 0)

\* ------------------------------------------------------- pure functions
RECURSIVE Pow10(_)
Pow10(e) == IF e = 0 THEN 1 ELSE 10 * Pow10(e - 1)

RECURSIVE Norm(_)
Norm(d) == IF d.e > 0 /\ d.n % 10 = 0 THEN Norm([n |-> d.n \div 10, e |-> d.e - 1]) ELSE d

\* no smoothing: smoothedVolume = volume
smooth_none(sv, volume) == [n |-> volume, e |-> 0]

\* the update without the decay of the previous value:
\* smoothedVolume + volume * 0.3
smooth_undamped(sv, volume) ==
    Norm([n |-> 10 * sv.n + 3 * volume * Pow10(sv.e), e |-> sv.e + 1])

\* smoothedVolume * 0.7 + volume * 0.3
smooth(sv, volume) ==
    Norm([n |-> 7 * sv.n + 3 * volume * Pow10(sv.e), e |-> sv.e + 1])

\* the mic-only variant after its constructor: smoothedVolume, isTalking, the
\* talking class of the avatar, and no updateMouthState call yet
TwinStart ==
    [smoothedVolume |-> [n |-> 0, e |-> 0], isTalking |-> FALSE, mouthOpen |-> FALSE,
     notes |-> <<>>]

\* the mic-only variant smoothing with the weights 0.8 and 0.2
micOnlyProcessAudio_slow(t, th, volume) ==
    LET s == Norm([n |-> t.smoothedVolume.n * 8 + volume * 2 * Pow10(t.smoothedVolume.e),
                   e |-> t.smoothedVolume.e + 1])
        shouldTalk == s.n > th * Pow10(s.e)
    IN  IF shouldTalk # t.isTalking
        THEN [smoothedVolume |-> s, isTalking |-> shouldTalk, mouthOpen |-> shouldTalk,
              notes |-> Append(t.notes, TRUE)]
        ELSE [t EXCEPT !.smoothedVolume = s, !.notes = Append(@, FALSE)]

\* the mic-only variant's processAudio from its smoothing on: the update of
\* smoothedVolume, the threshold test and updateMouthState
micOnlyProcessAudio(t, th, volume) ==
    LET s == Norm([n |-> t.smoothedVolume.n * 7 + volume * 3 * Pow10(t.smoothedVolume.e),
                   e |-> t.smoothedVolume.e + 1])
        shouldTalk == s.n > th * Pow10(s.e)
    IN  IF shouldTalk # t.isTalking
        THEN [smoothedVolume |-> s, isTalking |-> shouldTalk, mouthOpen |-> shouldTalk,
              notes |-> Append(t.notes, TRUE)]
        ELSE [t EXCEPT !.smoothedVolume = s, !.notes = Append(@, FALSE)]

\* smoothedVolume >= threshold
above_orEqual(sv, th) == sv.n >= th * Pow10(sv.e)

\* smoothedVolume > threshold
above(sv, th) == sv.n > th * Pow10(sv.e)

\* processVolume calling updateMouthState on every sample
processVolume_everySample(sv, talking, mouth, th, volume) ==
    LET s == smooth(sv, volume)
        shouldTalk == above(s, th)
    IN  [smoothedVolume |-> s, isTalking |-> shouldTalk, mouthOpen |-> shouldTalk,
         notified |-> TRUE]

\* processVolume: the new [smoothedVolume, isTalking, mouthOpen] and whether
\* updateMouthState was called
processVolume(sv, talking, mouth, th, volume) ==
    LET s == smooth(sv, volume)
        shouldTalk == above(s, th)
    IN  IF shouldTalk # talking
        THEN [smoothedVolume |-> s, isTalking |-> shouldTalk, mouthOpen |-> shouldTalk,
              notified |-> TRUE]
        ELSE [smoothedVolume |-> s, isTalking |-> talking, mouthOpen |-> mouth,
              notified |-> FALSE]

\* the rescaling without its clamp
rescale_unclamped(mul) == mul * 10

\* Math.min(100, Math.max(0, inputVolumeMul * 100)), the multiplier in tenths
rescale(mul) ==
    LET v == mul * 10
        lo == IF v > 0 THEN v ELSE 0
    IN  IF lo < 100 THEN lo ELSE 100

\* obsSend: the messages sent after obsSend(data)
obsSend(ws, out, data) == IF ws # "null" /\ ws = "OPEN" THEN Append(out, data) ELSE out

\* pollAudio without its obsConnected test
pollAudio_unguarded(connected, ws, out, timers, source) ==
    [sent |-> obsSend(ws, out, VolumeRequest(source)), pollTimers |-> timers + 1]

\* one run of pollAudio: the new [sent, pollTimers]
pollAudio(connected, ws, out, timers, source) ==
    IF ~connected
    THEN [sent |-> out, pollTimers |-> timers]
    ELSE [sent |-> obsSend(ws, out, VolumeRequest(source)), pollTimers |-> timers + 1]

\* onopen starting the poll loop whether or not a password is set
onopen_pollsAlways(password, out, timers, source) ==
    LET a == IF password # "" THEN obsSend("OPEN", out, AuthIdentify(password)) ELSE out
    IN  [sent |-> Append(a, VolumeRequest(source)), pollTimers |-> timers + 1]

\* the branch of onopen: authenticate if a password is set, else start polling
onopen(password, out, timers, source) ==
    IF password # ""
    THEN [sent |-> obsSend("OPEN", out, AuthIdentify(password)), pollTimers |-> timers]
    ELSE pollAudio(TRUE, "OPEN", out, timers, source)

\* onclose leaving obsConnected as it is
onclose_keeps(connected) == connected

\* onclose: the new obsConnected
onclose(connected) == FALSE

\* the test of the timeout callback
timedOut(connected) == ~connected

\* the tests of the response path without the requestType test
accepts_anyResponse(m) == m.hasMul

\* the tests of handleOBSMessage (op === 7) and handleOBSVolumeResponse
accepts(m) == m.requestType = "GetInputVolume" /\ m.hasMul

\* WebSocket.close(): the new readyState
wsClose(ws) == IF ws \in {"CONNECTING", "OPEN"} THEN "CLOSING" ELSE ws

\* initAudio up to its await: one more getUserMedia promise is pending
initAudio(pending) == pending + 1

\* ------------------------------------------------------------------ Init
Init ==
    /\ started = FALSE
    /\ params \in URLs
    /\ obsPassword = ""
    /\ obsAudioSource = DefaultSource
    /\ obsWebSocket = "null"
    /\ obsConnected = FALSE
    /\ closePending = FALSE
    /\ deadline = "unarmed"
    /\ pollTimers = 0
    /\ micPending = 0
    /\ audioLoops = 0
    /\ micPromptHidden = FALSE
    /\ promptText = "prompt"
    /\ threshold = DefaultThreshold
    /\ smoothedVolume = [n |-> 0, e |-> 0]
    /\ isTalking = FALSE
    /\ mouthOpen = FALSE
    /\ sent = <<>>
    /\ clicks = 0
    /\ wsCreated = 0
    /\ fallbacks = [error |-> 0, timeout |-> 0, thrown |-> 0]
    /\ gotIdentified = FALSE
    /\ hellos = 0
    /\ polls = 0
    /\ lastSource = "none"
    /\ lastMsg = NoMsg
    /\ fed = <<>>
    /\ twin = TwinStart

\* --------------------------------------------------------------- actions
\* A call of processVolume(volume) as part of a step, made while fewer than
\* cap calls were made so far
Feed(volume, cap) ==
    /\ Len(fed) < cap
    /\ LET r == processVolume(smoothedVolume, isTalking, mouthOpen, threshold, volume)
       IN  /\ smoothedVolume' = r.smoothedVolume
           /\ isTalking' = r.isTalking
           /\ mouthOpen' = r.mouthOpen
           /\ fed' = Append(fed, [sample |-> volume, threshold |-> threshold,
                                  talking |-> r.isTalking, notified |-> r.notified])
    /\ twin' = micOnlyProcessAudio(twin, threshold, volume)

\* new PNGTuber(): parseURLParams (threshold), bindEvents, checkOBSMode and,
\* in OBS mode, initOBSWebSocket up to its return
Constructor ==
    /\ ~started
    /\ started' = TRUE
    /\ threshold' = IF params.hasThreshold THEN params.threshold ELSE threshold
    /\ obsPassword' = params.password
    /\ obsAudioSource' = IF params.hasSource THEN params.source ELSE obsAudioSource
    /\ IF params.obs
       THEN IF params.portOk
            THEN /\ obsWebSocket' = "CONNECTING"
                 /\ wsCreated' = wsCreated + 1
                 /\ deadline' = "armed"
                 /\ UNCHANGED <<micPending, fallbacks>>
            ELSE \* new WebSocket throws, the catch block falls back
                 /\ micPending' = initAudio(micPending)
                 /\ fallbacks' = [fallbacks EXCEPT !.thrown = @ + 1]
                 /\ UNCHANGED <<obsWebSocket, wsCreated, deadline>>
       ELSE UNCHANGED <<obsWebSocket, wsCreated, deadline, micPending, fallbacks>>
    /\ lastMsg' = NoMsg
    /\ UNCHANGED <<params, obsConnected, closePending, pollTimers, audioLoops,
                   micPromptHidden, promptText, talkVars, sent, clicks, ghostVars,
                   lastSource, fed, twin>>

\* obsWebSocket.onopen
OnOpen ==
    /\ obsWebSocket = "CONNECTING"
    /\ ~closePending
    /\ Len(sent) < MaxSent
    /\ obsWebSocket' = "OPEN"
    /\ obsConnected' = TRUE
    /\ micPromptHidden' = TRUE
    /\ LET p == onopen(obsPassword, sent, pollTimers, obsAudioSource)
       IN  /\ sent' = p.sent
           /\ pollTimers' = p.pollTimers
    /\ lastMsg' = NoMsg
    /\ UNCHANGED <<started, cfgVars, closePending, deadline, micPending, audioLoops,
                   promptText, threshold, talkVars, clicks, wsCreated, fallbacks,
                   ghostVars, lastSource, fed, twin>>

\* obsWebSocket.onmessage with a hello: handleOBSMessage, op === 0
OnHello ==
    /\ obsWebSocket = "OPEN"
    /\ ~closePending
    /\ Len(sent) < MaxSent
    /\ sent' = obsSend(obsWebSocket, sent, HelloIdentify(obsPassword))
    /\ hellos' = hellos + 1
    /\ lastMsg' = InMsg(OpHello, Undefined, FALSE, 0)
    /\ UNCHANGED <<started, cfgVars, wsVars, deadline, pollTimers, micPending,
                   audioLoops, micPromptHidden, promptText, threshold, talkVars, clicks,
                   wsCreated, fallbacks, gotIdentified, polls, lastSource, fed, twin>>

\* obsWebSocket.onmessage with identified: handleOBSMessage, op === 2
OnIdentified ==
    /\ obsWebSocket = "OPEN"
    /\ ~closePending
    /\ Len(sent) < MaxSent
    /\ LET p == pollAudio(obsConnected, obsWebSocket, sent, pollTimers, obsAudioSource)
       IN  /\ sent' = p.sent
           /\ pollTimers' = p.pollTimers
    /\ gotIdentified' = TRUE
    /\ lastMsg' = InMsg(OpIdentified, Undefined, FALSE, 0)
    /\ UNCHANGED <<started, cfgVars, wsVars, deadline, micPending, audioLoops,
                   micPromptHidden, promptText, threshold, talkVars, clicks, wsCreated,
                   fallbacks, hellos, polls, lastSource, fed, twin>>

\* obsWebSocket.onmessage with a response: handleOBSMessage, op === 7, and
\* handleOBSVolumeResponse
OnMessageResponse(responses, cap) ==
    /\ obsWebSocket = "OPEN"
    /\ ~closePending
    /\ \E m \in responses :
        /\ lastMsg' = InMsg(OpResponse, m.requestType, m.hasMul, m.mul)
        /\ IF accepts(m)
           THEN /\ Feed(rescale(m.mul), cap)
                /\ lastSource' = "remote"
           ELSE UNCHANGED <<talkVars, lastSource, fed, twin>>
    /\ UNCHANGED <<started, cfgVars, wsVars, deadline, pollTimers, micPending,
                   audioLoops, micPromptHidden, promptText, threshold, sent, clicks,
                   wsCreated, fallbacks, ghostVars>>

OnResponse == OnMessageResponse(Responses, MaxDigits)

\* obsWebSocket.onmessage with any other opcode: handleOBSMessage falls through
OnOtherMessage ==
    /\ obsWebSocket = "OPEN"
    /\ ~closePending
    /\ \E op \in OtherOps :
        /\ op \notin {OpHello, OpIdentified, OpResponse}
        /\ lastMsg' = InMsg(op, Undefined, FALSE, 0)
    /\ UNCHANGED <<started, cfgVars, wsVars, deadline, pollTimers, micPending,
                   audioLoops, micPromptHidden, promptText, threshold, talkVars, sent,
                   clicks, wsCreated, fallbacks, ghostVars, lastSource, fed, twin>>

\* The connection fails (refused, dropped, or closed while connecting): the
\* socket is CLOSED and obsWebSocket.onerror runs; onclose runs next.
OnError ==
    /\ obsWebSocket \in {"CONNECTING", "OPEN", "CLOSING"}
    /\ ~closePending
    /\ obsWebSocket' = "CLOSED"
    /\ closePending' = TRUE
    /\ micPending' = initAudio(micPending)
    /\ fallbacks' = [fallbacks EXCEPT !.error = @ + 1]
    /\ lastMsg' = NoMsg
    /\ UNCHANGED <<started, cfgVars, obsConnected, deadline, pollTimers, audioLoops,
                   micPromptHidden, promptText, threshold, talkVars, sent, clicks,
                   wsCreated, ghostVars, lastSource, fed, twin>>

\* obsWebSocket.onclose after onerror
OnCloseAfterError ==
    /\ closePending
    /\ closePending' = FALSE
    /\ obsConnected' = onclose(obsConnected)
    /\ lastMsg' = NoMsg
    /\ UNCHANGED <<started, cfgVars, obsWebSocket, deadline, pollTimers, micPending,
                   audioLoops, micPromptHidden, promptText, threshold, talkVars, sent,
                   clicks, wsCreated, fallbacks, ghostVars, lastSource, fed, twin>>

\* onclose connecting again
OnCleanClose_reconnects ==
    /\ obsWebSocket = "OPEN"
    /\ ~closePending
    /\ obsWebSocket' = "CONNECTING"
    /\ wsCreated' = wsCreated + 1
    /\ obsConnected' = FALSE
    /\ lastMsg' = NoMsg
    /\ UNCHANGED <<started, cfgVars, closePending, deadline, pollTimers, micPending,
                   audioLoops, micPromptHidden, promptText, threshold, talkVars, sent,
                   clicks, fallbacks, ghostVars, lastSource, fed, twin>>

\* The server closes an open connection cleanly: obsWebSocket.onclose alone
OnCleanClose ==
    /\ obsWebSocket = "OPEN"
    /\ ~closePending
    /\ obsWebSocket' = "CLOSED"
    /\ obsConnected' = onclose(obsConnected)
    /\ lastMsg' = NoMsg
    /\ UNCHANGED <<started, cfgVars, closePending, deadline, pollTimers, micPending,
                   audioLoops, micPromptHidden, promptText, threshold, talkVars, sent,
                   clicks, wsCreated, fallbacks, ghostVars, lastSource, fed, twin>>

\* the setTimeout(..., 3000) callback of initOBSWebSocket
Timeout ==
    /\ deadline = "armed"
    /\ ~closePending
    /\ deadline' = "fired"
    /\ IF timedOut(obsConnected)
       THEN /\ obsWebSocket' = IF obsWebSocket # "null" THEN wsClose(obsWebSocket)
                               ELSE obsWebSocket
            /\ micPending' = initAudio(micPending)
            /\ fallbacks' = [fallbacks EXCEPT !.timeout = @ + 1]
       ELSE UNCHANGED <<obsWebSocket, micPending, fallbacks>>
    /\ lastMsg' = NoMsg
    /\ UNCHANGED <<started, cfgVars, obsConnected, closePending, pollTimers, audioLoops,
                   micPromptHidden, promptText, threshold, talkVars, sent, clicks,
                   wsCreated, ghostVars, lastSource, fed, twin>>

\* a setTimeout(pollAudio, 16) callback
PollTick ==
    /\ pollTimers > 0
    /\ ~closePending
    /\ Len(sent) < MaxSent
    /\ LET p == pollAudio(obsConnected, obsWebSocket, sent, pollTimers - 1,
                          obsAudioSource)
       IN  /\ sent' = p.sent
           /\ pollTimers' = p.pollTimers
    /\ polls' = polls + 1
    /\ lastMsg' = NoMsg
    /\ UNCHANGED <<started, cfgVars, wsVars, deadline, micPending, audioLoops,
                   micPromptHidden, promptText, threshold, talkVars, clicks, wsCreated,
                   fallbacks, gotIdentified, hellos, lastSource, fed, twin>>

\* click on the enable-mic button
Click ==
    /\ started
    /\ ~closePending
    /\ clicks < MaxClicks
    /\ clicks' = clicks + 1
    /\ micPending' = initAudio(micPending)
    /\ lastMsg' = NoMsg
    /\ UNCHANGED <<started, cfgVars, wsVars, deadline, pollTimers, audioLoops,
                   micPromptHidden, promptText, threshold, talkVars, sent, wsCreated,
                   fallbacks, ghostVars, lastSource, fed, twin>>

\* getUserMedia resolves: the rest of initAudio's try block, with
\* startAudioLoop's first processAudio call
StartAudio(cap) ==
    /\ micPending > 0
    /\ ~closePending
    /\ micPending' = micPending - 1
    /\ micPromptHidden' = TRUE
    /\ audioLoops' = audioLoops + 1
    /\ \E v \in LocalVolumes : Feed(v, cap)
    /\ lastSource' = "local"
    /\ lastMsg' = NoMsg
    /\ UNCHANGED <<started, cfgVars, wsVars, deadline, pollTimers, promptText, threshold,
                   sent, clicks, wsCreated, fallbacks, ghostVars>>

MicGranted == StartAudio(MaxDigits)

\* getUserMedia rejects: initAudio's catch block
MicDenied ==
    /\ micPending > 0
    /\ ~closePending
    /\ micPending' = micPending - 1
    /\ promptText' = "denied"
    /\ lastMsg' = NoMsg
    /\ UNCHANGED <<started, cfgVars, wsVars, deadline, pollTimers, audioLoops,
                   micPromptHidden, threshold, talkVars, sent, clicks, wsCreated,
                   fallbacks, ghostVars, lastSource, fed, twin>>

\* a requestAnimationFrame(processAudio) callback of a running loop
ProcessAudio(cap) ==
    /\ audioLoops > 0
    /\ ~closePending
    /\ \E v \in LocalVolumes : Feed(v, cap)
    /\ lastSource' = "local"
    /\ lastMsg' = NoMsg
    /\ UNCHANGED <<started, cfgVars, wsVars, deadline, pollTimers, micPending, audioLoops,
                   micPromptHidden, promptText, threshold, sent, clicks, wsCreated,
                   fallbacks, ghostVars>>

Frame == ProcessAudio(MaxDigits)

Next ==
    \/ Constructor
    \/ OnOpen
    \/ OnHello
    \/ OnIdentified
    \/ OnResponse
    \/ OnOtherMessage
    \/ OnError
    \/ OnCloseAfterError
    \/ OnCleanClose
    \/ Timeout
    \/ PollTick
    \/ Click
    \/ MicGranted
    \/ MicDenied
    \/ Frame

Spec == Init /\ [][Next]_vars

\* ---------------------------------------------- the talk state machine
\* The sessions below run processVolume over longer sample sequences than
\* Spec does, from two states of Spec in which a source is about to deliver.

\* the slider's listener re-evaluating the talk state at once
SetThreshold_reevaluates ==
    /\ started
    /\ ~closePending
    /\ \E v \in SliderValues :
        /\ threshold' = v
        /\ isTalking' = above(smoothedVolume, v)
        /\ mouthOpen' = above(smoothedVolume, v)
    /\ lastMsg' = NoMsg
    /\ UNCHANGED <<started, cfgVars, wsVars, deadline, pollTimers, micPending,
                   audioLoops, micPromptHidden, promptText, smoothedVolume, sent, clicks,
                   wsCreated, fallbacks, ghostVars, lastSource, fed, twin>>

\* the threshold slider's input listener
SetThreshold ==
    /\ started
    /\ ~closePending
    /\ \E v \in SliderValues : threshold' = v
    /\ lastMsg' = NoMsg
    /\ UNCHANGED <<started, cfgVars, wsVars, deadline, pollTimers, micPending,
                   audioLoops, micPromptHidden, promptText, talkVars, sent, clicks,
                   wsCreated, fallbacks, ghostVars, lastSource, fed, twin>>

\* the page opened without parameters, after the constructor and a click on
\* enable-mic: getUserMedia is pending
LocalStart ==
    /\ started = TRUE
    /\ params = Params(FALSE, TRUE, "", FALSE, "", FALSE, 0)
    /\ obsPassword = ""
    /\ obsAudioSource = DefaultSource
    /\ obsWebSocket = "null"
    /\ obsConnected = FALSE
    /\ deadline = "unarmed"
    /\ pollTimers = 0
    /\ micPending = 1
    /\ micPromptHidden = FALSE
    /\ threshold = DefaultThreshold
    /\ sent = <<>>
    /\ clicks = 1
    /\ wsCreated = 0
    /\ gotIdentified = FALSE
    /\ lastMsg = NoMsg

\* the page opened with obs=true, a password, a source and threshold=30, after
\* the constructor, onopen and the identified message: the poll loop runs
RemoteStart ==
    /\ started = TRUE
    /\ params = Params(TRUE, TRUE, "secret", TRUE, "Desktop Audio", TRUE, 30)
    /\ obsPassword = params.password
    /\ obsAudioSource = params.source
    /\ obsWebSocket = "OPEN"
    /\ obsConnected = TRUE
    /\ deadline = "armed"
    /\ pollTimers = 1
    /\ micPending = 0
    /\ micPromptHidden = TRUE
    /\ threshold = params.threshold
    /\ sent = <<AuthIdentify(obsPassword), VolumeRequest(obsAudioSource)>>
    /\ clicks = 0
    /\ wsCreated = 1
    /\ gotIdentified = TRUE
    /\ lastMsg = InMsg(OpIdentified, Undefined, FALSE, 0)

TalkInit ==
    /\ LocalStart \/ RemoteStart
    /\ closePending = FALSE
    /\ audioLoops = 0
    /\ promptText = "prompt"
    /\ smoothedVolume = [n |-> 0, e |-> 0]
    /\ isTalking = FALSE
    /\ mouthOpen = FALSE
    /\ fallbacks = [error |-> 0, timeout |-> 0, thrown |-> 0]
    /\ hellos = 0
    /\ polls = 0
    /\ lastSource = "none"
    /\ fed = <<>>
    /\ twin = TwinStart

TalkGranted == StartAudio(MaxSamples)
TalkFrame == ProcessAudio(MaxSamples)
TalkResponse == OnMessageResponse(ResponsesWith(TalkMuls), MaxSamples)

TalkNext ==
    \/ TalkGranted
    \/ TalkFrame
    \/ TalkResponse
    \/ SetThreshold

TalkSpec == TalkInit /\ [][TalkNext]_vars

TypeOK ==
    /\ obsWebSocket \in {"null", "CONNECTING", "OPEN", "CLOSING", "CLOSED"}
    /\ deadline \in {"unarmed", "armed", "fired"}
    /\ pollTimers \in 0..MaxSent
    /\ Len(sent) <= MaxSent
    /\ Len(fed) <= MaxSamples
    /\ smoothedVolume.e <= Len(fed)

\* ------------------------------------------------------------ properties
\* a GetInputVolume request has been sent: the poll loop has been entered
PollingEntered == \E i \in DOMAIN sent : sent[i].op = OpRequest

\* initAudio calls made by the error listener, the timeout and the catch block
TotalFallbacks == fallbacks.error + fallbacks.timeout + fallbacks.thrown

\* the frame loop is running / the poll loop is running on a live connection
LocalActive == audioLoops > 0
RemoteActive == obsConnected /\ pollTimers > 0

\* C1: at most one source is active at a time: the frame loop of the
\* microphone and the poll loop of the connection never run together.
C1_AtMostOneSource == ~(LocalActive /\ RemoteActive)

\* C2: after the error listener has started local capture, no later callback
\* of initOBSWebSocket (the close listener, the timeout) starts it again.
C2_FallbackOnceOnError == [][fallbacks.error > 0 => fallbacks' = fallbacks]_vars

\* C3: when the timeout has expired and no identified message was handled
\* (and the poll loop was not entered without one), local capture has been
\* started exactly once by the fallback.
C3_DeadlineFallbackOnce ==
    (deadline = "fired" /\ ~gotIdentified /\ ~PollingEntered) => TotalFallbacks = 1

\* C4: a volume response handled while the frame loop is running changes
\* neither smoothedVolume nor isTalking.
C4_NoStaleRemoteSample ==
    [][(audioLoops > 0 /\ lastSource' = "remote")
        => UNCHANGED <<smoothedVolume, isTalking>>]_vars

\* C5: once the poll loop has been entered, the timeout expiring neither
\* closes the connection nor starts local capture.
C5_TimerInertAfterPolling ==
    [][(PollingEntered /\ deadline = "armed" /\ deadline' = "fired")
        => (obsWebSocket' = obsWebSocket /\ micPending' = micPending)]_vars

\* C6: every hello is answered with one identify that carries rpcVersion and,
\* when a password is configured, the password as its authentication.
C6_HelloAnsweredWithAuth ==
    [][hellos' = hellos + 1
        => /\ Len(sent') = Len(sent) + 1
           /\ LET m == sent'[Len(sent')]
              IN  /\ m.op = OpIdentify
                  /\ m.rpcVersion = RpcVersion
                  /\ (obsPassword # "" => m.authentication = obsPassword)]_vars

\* C7: with a password no GetInputVolume request is sent before an identified
\* message was handled; without one the first message sent on the open
\* connection is a request and a poll timer is pending.
C7_PollingOnlyAfterEntry ==
    /\ (obsPassword # "" /\ PollingEntered) => gotIdentified
    /\ (obsPassword = "" /\ obsConnected)
        => (sent # <<>> /\ sent[1].op = OpRequest /\ pollTimers >= 1)

C7_Witness == obsPassword # "" /\ gotIdentified /\ PollingEntered /\ polls > 0

\* C8: every request is a GetInputVolume for the configured input; while the
\* connection is open the poll chain stays alive and every poll callback
\* sends a request and schedules the next; a poll callback that runs after
\* the close listener sends nothing and ends its chain, and nothing is sent
\* on a closed connection.
C8_PollChain ==
    /\ [](\A i \in DOMAIN sent : sent[i].op = OpRequest
            => (sent[i].requestType = "GetInputVolume"
                /\ sent[i].inputName = obsAudioSource))
    /\ [](PollingEntered /\ obsConnected => pollTimers >= 1)
    /\ [][polls' = polls + 1
            => IF obsConnected
               THEN /\ Len(sent') = Len(sent) + 1
                    /\ sent'[Len(sent')].op = OpRequest
                    /\ pollTimers' = pollTimers
               ELSE /\ sent' = sent
                    /\ pollTimers' = pollTimers - 1]_vars
    /\ [][obsWebSocket = "CLOSED" => (sent' = sent /\ pollTimers' <= pollTimers)]_vars

C8_Witness ==
    PollingEntered /\ polls >= 2 /\ obsWebSocket = "CLOSED" /\ pollTimers = 0

C10_ErrorHandlerTearsDown ==
    fallbacks.error > 0 => (obsWebSocket = "CLOSED" /\ ~obsConnected)

\* C10 amended: when the error listener runs the connection is already
\* closed; the close listener runs next, before any other callback, and
\* clears obsConnected; from then on nothing is sent and every poll callback
\* ends its chain.
C10_TornDownByCloseListener ==
    /\ [](fallbacks.error > 0 => obsWebSocket = "CLOSED")
    /\ [](fallbacks.error > 0 /\ ~closePending => ~obsConnected)
    /\ [][closePending
            => (~closePending' /\ ~obsConnected'
                /\ UNCHANGED <<audioLoops, micPending, sent, pollTimers, talkVars>>)]_vars
    /\ [][fallbacks.error > 0 => (sent' = sent /\ pollTimers' <= pollTimers)]_vars

C10_Witness ==
    fallbacks.error > 0 /\ ~closePending /\ PollingEntered /\ pollTimers = 0
    /\ audioLoops > 0

\* every variable but lastMsg
restVars == <<started, cfgVars, wsVars, deadline, pollTimers, micPending, audioLoops,
              micPromptHidden, promptText, threshold, talkVars, sent, clicks, wsCreated,
              fallbacks, ghostVars, lastSource, fed, twin>>

\* the message is an op=7 response to GetInputVolume that carries a multiplier
IsVolumeResponse(m) ==
    m.op = OpResponse /\ m.requestType = "GetInputVolume" /\ m.hasMul

\* clamp(m * 100, 0, 100) for a multiplier in tenths, by cases
Clamped(mul) == IF mul <= 0 THEN 0 ELSE IF mul >= 10 THEN 100 ELSE mul * 10

\* the sample of the latest processVolume call
LastSample == fed[Len(fed)].sample

\* C11: handling a volume response whose payload has the multiplier m calls
\* processVolume once, with clamp(m * 100, 0, 100): 0 for m <= 0, 100 for
\* m >= 1 and m * 100 in between.
C11_SampleIsClampedPercent ==
    [][IsVolumeResponse(lastMsg')
        => /\ Len(fed') = Len(fed) + 1
           /\ fed'[Len(fed')].sample = Clamped(lastMsg'.mul)]_vars

\* hello, identify, identified and then a response with inputVolumeMul 0.5
\* have been handled, and the sample 50 was fed
C11_Witness ==
    /\ hellos > 0
    /\ \E i \in DOMAIN sent : sent[i].op = OpIdentify
    /\ gotIdentified
    /\ lastMsg = InMsg(OpResponse, "GetInputVolume", TRUE, 5)
    /\ LastSample = 50

\* the message is one handleOBSMessage has no use for: an opcode other than
\* 0, 2 and 7, or an op=7 response that is not a GetInputVolume response with
\* a multiplier
Ignored(m) ==
    /\ m # NoMsg
    /\ \/ m.op \notin {OpHello, OpIdentified, OpResponse}
       \/ m.op = OpResponse /\ (m.requestType # "GetInputVolume" \/ ~m.hasMul)

\* C12: handling a message of an opcode other than 0, 2 and 7, or an op=7
\* response of another requestType or without a multiplier, changes nothing:
\* smoothedVolume, the talk state, the connection, the running loops stay as
\* they are and nothing is sent.
C12_IgnoredMessagesChangeNothing == [][Ignored(lastMsg') => UNCHANGED restVars]_vars

\* a response to another request was handled on a polling connection while talking
C12_Witness ==
    /\ Ignored(lastMsg)
    /\ lastMsg.requestType = "GetVersion"
    /\ obsConnected
    /\ pollTimers > 0
    /\ isTalking

\* decimals n / 10^e compared at their larger exponent
Dec(v) == [n |-> v, e |-> 0]
MaxE(a, b) == IF a.e > b.e THEN a.e ELSE b.e
Scaled(d, e) == d.n * Pow10(e - d.e)
Leq(a, b) == Scaled(a, MaxE(a, b)) <= Scaled(b, MaxE(a, b))
Between(x, a, b) == (Leq(a, x) /\ Leq(x, b)) \/ (Leq(b, x) /\ Leq(x, a))

\* C13: smoothedVolume is within [0, 100] in every state, and every
\* processVolume call leaves it between its previous value and the sample.
C13_SmoothedVolumeBounded ==
    /\ [](Leq(Dec(0), smoothedVolume) /\ Leq(smoothedVolume, Dec(100)))
    /\ [][fed' # fed
           => Between(smoothedVolume', smoothedVolume, Dec(fed'[Len(fed')].sample))]_vars

\* five or more samples have been processed and smoothedVolume has come
\* close to the sample 100 without reaching it
C13_Witness ==
    /\ Len(fed) >= 5
    /\ LastSample = 100
    /\ Leq(Dec(80), smoothedVolume)
    /\ ~Leq(Dec(100), smoothedVolume)

\* isTalking before the k-th processVolume call
TalkingBefore(k) == IF k = 1 THEN FALSE ELSE fed[k - 1].talking

\* updateMouthState was called exactly by the calls that changed isTalking
EdgeOnly == \A k \in DOMAIN fed : fed[k].notified <=> (fed[k].talking # TalkingBefore(k))

\* two notifications with none between them carry different values
Alternating ==
    \A i, j \in DOMAIN fed :
        (i < j /\ fed[i].notified /\ fed[j].notified
            /\ \A k \in (i + 1)..(j - 1) : ~fed[k].notified)
        => fed[i].talking # fed[j].talking

\* calls i..j were made with one sample value and compared with one threshold
ConstantRun(i, j) ==
    \A k \in i..j : fed[k].sample = fed[i].sample /\ fed[k].threshold = fed[i].threshold

\* the threshold of call i is the one the call before it was compared with
SettledBefore(i) == i = 1 \/ fed[i - 1].threshold = fed[i].threshold

\* C14 as stated: notifications are made only on a change of the comparison
\* result, consecutive notifications alternate, and within a run of one
\* constant sample value no notification follows the first one.
C14_ConstantFeedNotifiesOnce ==
    /\ EdgeOnly
    /\ Alternating
    /\ \A i, j \in DOMAIN fed :
        (i < j /\ ConstantRun(i, j) /\ fed[i].notified) => ~fed[j].notified

\* C14: notifications are made only on a change of the comparison result,
\* consecutive notifications alternate, and within a run of one constant
\* sample value, fed at the threshold the sample before the run was compared
\* with, no notification follows the first one.
C14_EdgeTriggered ==
    /\ EdgeOnly
    /\ Alternating
    /\ \A i, j \in DOMAIN fed :
        (i < j /\ ConstantRun(i, j) /\ SettledBefore(i) /\ fed[i].notified)
        => ~fed[j].notified

\* a constant run whose first sample notified and whose next two did not,
\* after an earlier notification
C14_Witness ==
    \E i \in DOMAIN fed :
        /\ i + 2 \in DOMAIN fed
        /\ ConstantRun(i, i + 2)
        /\ SettledBefore(i)
        /\ fed[i].notified
        /\ \E l \in 1..(i - 1) : fed[l].notified

\* C15: the comparison is strict: a processVolume call that leaves
\* smoothedVolume equal to the threshold leaves isTalking false, and one that
\* leaves it greater than the threshold leaves isTalking true.
C15_StrictComparison ==
    [][fed' # fed
        => /\ (Leq(smoothedVolume', Dec(threshold)) /\ Leq(Dec(threshold), smoothedVolume'))
                => ~isTalking'
           /\ ~Leq(smoothedVolume', Dec(threshold)) => isTalking']_vars

\* the latest sample left smoothedVolume exactly at the threshold it was
\* compared with, and the avatar is not talking
C15_Witness ==
    /\ fed # <<>>
    /\ fed[Len(fed)].threshold = threshold
    /\ smoothedVolume = Dec(threshold)
    /\ ~isTalking

\* the multipliers of the scenario in tenths, 0.1 held once more after the
\* listed five
ScenarioMuls == <<1, 1, 9, 9, 1, 1>>

\* the first k processVolume calls of a remote session were made with the
\* scenario's multipliers, rescaled, and compared with threshold 30
Follows(k) ==
    /\ params.obs
    /\ k <= Len(fed)
    /\ \A j \in 1..k : fed[j].sample = 10 * ScenarioMuls[j] /\ fed[j].threshold = 30

\* C16: from smoothedVolume 0, not talking, threshold 30, the multipliers
\* 0.1, 0.1, 0.9, 0.9, 0.1 and 0.1 again make the avatar talk exactly from the
\* third sample on and stop at the second 0.1 after the drop: the only
\* notifications are at the third and the sixth sample.
C16_Scenario ==
    \A k \in DOMAIN ScenarioMuls :
        Follows(k) => /\ fed[k].talking = (k \in 3..5)
                      /\ fed[k].notified = (k \in {3, 6})

\* the whole scenario has run and the avatar has just stopped talking
C16_Witness ==
    /\ Follows(Len(ScenarioMuls))
    /\ lastSource = "remote"
    /\ fed[Len(ScenarioMuls)].notified
    /\ ~fed[Len(ScenarioMuls)].talking

\* initOBSWebSocket has given up on the connection and fallen back, and the
\* connection is not polling
RemoteFailed == TotalFallbacks > 0 /\ ~obsConnected /\ ~closePending

\* getUserMedia was refused, none is pending and no frame loop runs
MicRefused == promptText = "denied" /\ micPending = 0 /\ audioLoops = 0

\* C17: when the remote path has failed and the microphone was then refused,
\* the avatar is idle with its mouth closed.
C17_IdleAfterTotalFailure ==
    (RemoteFailed /\ MicRefused) => (~isTalking /\ ~mouthOpen)

\* C18: when getUserMedia is refused, the error message is visible to the
\* user (the prompt's text is the error and the prompt is not hidden), no
\* frame loop is started, and smoothedVolume and the talk state are unchanged.
C18_DenialShownToUser ==
    [][(micPending' = micPending - 1 /\ audioLoops' = audioLoops)
        => /\ promptText' = "denied"
           /\ ~micPromptHidden'
           /\ UNCHANGED <<smoothedVolume, isTalking, mouthOpen>>]_vars

\* README.md, URL Parameters: the default of threshold
DocumentedThreshold == 30

\* C19: a page opened without a threshold parameter runs with threshold 30.
C19_DefaultThresholdIsThirty ==
    (started /\ ~params.hasThreshold) => threshold = DocumentedThreshold

\* C20: a change of the threshold changes neither smoothedVolume nor the talk
\* state and calls updateMouthState for nothing; the first sample processed
\* after a change leaves isTalking equal to smoothedVolume > the new threshold.
C20_ThresholdReadAfresh ==
    [][/\ threshold' # threshold
            => UNCHANGED <<smoothedVolume, isTalking, mouthOpen, fed>>
       /\ (fed' # fed /\ fed # <<>> /\ fed[Len(fed)].threshold # threshold)
            => /\ isTalking' = ~Leq(smoothedVolume', Dec(threshold))
               /\ fed'[Len(fed')].threshold = threshold]_vars

\* the slider was moved between two samples and the second sample changed the
\* talk state under the new threshold
C20_Witness ==
    /\ Len(fed) >= 2
    /\ fed[Len(fed)].threshold # fed[Len(fed) - 1].threshold
    /\ fed[Len(fed)].threshold = threshold
    /\ fed[Len(fed)].notified

\* C21: at most one processAudio frame loop is running, however often local
\* capture was requested.
C21_SingleFrameLoop == audioLoops <= 1

\* C22: at most one setTimeout(pollAudio, 16) is pending at any time.
C22_SinglePollChain == pollTimers <= 1

\* the identify messages sent so far
IdentifiesSent == Cardinality({i \in DOMAIN sent : sent[i].op = OpIdentify})

\* C23: an identify is sent only in answer to a hello, one for each hello
\* handled, with or without a password.
C23_OneIdentifyPerHello == IdentifiesSent = hellos

\* C24: fed the same samples under the same threshold, processVolume and the
\* code inlined in the mic-only variant's frame loop have the same
\* smoothedVolume, the same isTalking, the same talking class on the avatar
\* and called updateMouthState for the same samples.
C24_VariantsAgree ==
    /\ twin.smoothedVolume = smoothedVolume
    /\ twin.isTalking = isTalking
    /\ twin.mouthOpen = mouthOpen
    /\ twin.notes = [k \in DOMAIN fed |-> fed[k].notified]

\* four or more samples were processed by both, both are talking and both
\* notified the presenter twice or more
C24_Witness ==
    /\ Len(fed) >= 4
    /\ twin.isTalking /\ isTalking
    /\ Cardinality({k \in DOMAIN twin.notes : twin.notes[k]}) >= 2
    /\ Cardinality({k \in DOMAIN fed : fed[k].notified}) >= 2

====
